---- MODULE Spec2Model ----
(***************************************************************************)
(* marinade-value-parser: the relevance classifier                         *)
(* (does_tx_affect_msol_value) and the valuation pipeline                  *)
(* (analyze_transaction) of src/lib.rs.                                    *)
(*                                                                         *)
(* Conventions.  An Option is a sequence of length 0 (None) or 1 (Some).   *)
(* A u64 is its 8 little-endian bytes, least significant first, which is   *)
(* also its wire form in the state account; arithmetic is done on the      *)
(* bytes, so the full 64-bit width is kept.  A call that panics yields     *)
(* the outcome "Panic".                                                    *)
(***************************************************************************)
EXTENDS Integers, Sequences, FiniteSets, TLC

VARIABLES tx, verdict, overflow_checks, account, account_at_tx, later_txs,
          fetched, result, pc

vars == <<tx, verdict, overflow_checks, account, account_at_tx, later_txs,
          fetched, result, pc>>

\* ---------------------------------------------------------------- bounds
\* Longest instruction list of a classified transaction.
MaxInstr == 2
\* Most state-changing transactions landing between T and the analysis.
MaxLaterTxs == 2

\* ------------------------------------------------------------- constants
SOL_MINT_PUBKEY == "So11111111111111111111111111111111111111112"
MSOL_MINT_PUBKEY == "mSoLzYCxHdYgdzU16g5QSh3i5K3z3KZK1iNKhS3nZF"
MARINADE_PROGRAM_KEY == "MR2LqxoSbw831bNy68utpu5n4YqBH3AzDmddkgk9LQv"
MARINADE_STATE_PUBKEY == "8szGkuLTAux9XMgZ2vtY39jVSowEcpBfFfD8hXSEqdGC"

\* [0xf2, 0x23, 0xc6, 0x89, 0x52, 0xe1, 0xf2, 0xb6]
DEPOSIT_DISCRIMINATOR == <<242, 35, 198, 137, 82, 225, 242, 182>>

None == <<>>
Some(x) == <<x>>

\* ------------------------------------------------------- u64 arithmetic
U64Bytes == 8

\* The u64 holding n, for n below 2^31.
U64(n) ==
    <<n % 256, (n \div 256) % 256, (n \div 65536) % 256,
      (n \div 16777216) % 256, 0, 0, 0, 0>>

U64_MAX == <<255, 255, 255, 255, 255, 255, 255, 255>>

\* a + b on equally long byte strings, from byte i with carry c; the result
\* has one byte more than the operands, the last being the carry out.
RECURSIVE AddFrom(_, _, _, _)
AddFrom(a, b, i, c) ==
    IF i > Len(a) THEN <<c>>
    ELSE LET s == a[i] + b[i] + c
         IN  <<s % 256>> \o AddFrom(a, b, i + 1, s \div 256)

\* a - b on equally long byte strings, from byte i with borrow br; the last
\* byte of the result is the borrow out (1 when a < b).
RECURSIVE SubFrom(_, _, _, _)
SubFrom(a, b, i, br) ==
    IF i > Len(a) THEN <<br>>
    ELSE LET d == a[i] - b[i] - br
         IN  <<(d + 256) % 256>> \o SubFrom(a, b, i + 1, IF d < 0 THEN 1 ELSE 0)

Low(x, n) == SubSeq(x, 1, n)

IsZero(a) == \A i \in 1..Len(a) : a[i] = 0

\* a < b, as numbers.
Less(a, b) == SubFrom(a, b, 1, 0)[Len(a) + 1] = 1

\* u64 `+`: the sum, or a panic on overflow when the build checks overflow,
\* the sum modulo 2^64 when it does not.
u64_add(a, b, checks) ==
    LET s == AddFrom(a, b, 1, 0)
    IN  IF s[U64Bytes + 1] = 1 /\ checks THEN None ELSE Some(Low(s, U64Bytes))

\* u64 `-`: the difference, or a panic on underflow when the build checks
\* overflow, the difference modulo 2^64 when it does not.
u64_sub(a, b, checks) ==
    LET d == SubFrom(a, b, 1, 0)
    IN  IF d[U64Bytes + 1] = 1 /\ checks THEN None ELSE Some(Low(d, U64Bytes))

\* Bit k (0 the least significant) of a byte string.
Bit(a, k) == (a[(k \div 8) + 1] \div (2 ^ (k % 8))) % 2

\* Restoring division: n and d are u64, d non-zero; k is the next bit of n to
\* bring down, r the running remainder (9 bytes), q the quotient so far.
\* (The test on Len evaluates this step's r3 and q2 before the next step.)
RECURSIVE DivFrom(_, _, _, _, _)
DivFrom(n, d, k, r, q) ==
    IF k < 0 THEN q
    ELSE LET bit == <<Bit(n, k)>> \o [i \in 1..U64Bytes |-> 0]
             r2  == Low(AddFrom(Low(AddFrom(r, r, 1, 0), U64Bytes + 1),
                                bit, 1, 0), U64Bytes + 1)
             d9  == d \o <<0>>
             ge  == ~Less(r2, d9)
             r3  == IF ge THEN Low(SubFrom(r2, d9, 1, 0), U64Bytes + 1) ELSE r2
             q2  == Low(AddFrom(q, q, 1, IF ge THEN 1 ELSE 0), U64Bytes)
         IN  IF Len(r3) > 0 /\ Len(q2) > 0
             THEN DivFrom(n, d, k - 1, r3, q2)
             ELSE q

\* u64 `/`: the truncating quotient, a panic when the divisor is zero (in
\* every build).
u64_div(n, d) ==
    IF IsZero(d) THEN None
    ELSE Some(DivFrom(n, d, 8 * U64Bytes - 1,
                      [i \in 1..(U64Bytes + 1) |-> 0], U64(0)))

\* ------------------------------------------------ discriminator registry
\* The first 8 bytes of the SHA-256 digest of the UTF-8 bytes of `name`,
\* tabulated for the operation names the program and its inputs use.
Sha256Prefix8(name) ==
    CASE name = "initialize"                -> <<71, 14, 190, 130, 247, 85, 39, 82>>
      [] name = "change_authority"          -> <<38, 26, 184, 87, 68, 249, 210, 199>>
      [] name = "add_validator"             -> <<252, 21, 241, 190, 128, 21, 81, 118>>
      [] name = "remove_validator"          -> <<255, 97, 255, 38, 37, 19, 188, 209>>
      [] name = "set_validator_score"       -> <<240, 112, 87, 139, 242, 8, 152, 237>>
      [] name = "config_validator"          -> <<195, 116, 140, 97, 255, 218, 144, 246>>
      [] name = "deposit_stake_account"     -> <<132, 165, 97, 255, 242, 241, 55, 39>>
      [] name = "liquid_unstake"            -> <<121, 72, 160, 79, 164, 123, 241, 48>>
      [] name = "add_liquidity"             -> <<7, 6, 89, 205, 5, 12, 56, 147>>
      [] name = "remove_liquidity"          -> <<38, 199, 141, 177, 153, 214, 121, 124>>
      [] name = "set_lp_params"             -> <<137, 245, 3, 215, 190, 31, 121, 155>>
      [] name = "configure_delegated_stake" -> <<52, 42, 215, 180, 56, 74, 7, 153>>
      [] name = "order_unstake"             -> <<74, 228, 249, 13, 127, 190, 100, 85>>
      [] name = "claim"                     -> <<221, 27, 60, 49, 44, 247, 216, 22>>
      [] name = "withdraw_stake_account"    -> <<24, 155, 105, 33, 146, 11, 225, 199>>
      [] name = "stake_reserve"             -> <<154, 249, 132, 119, 147, 32, 237, 207>>
      [] name = "deposit"                   -> <<195, 185, 251, 120, 164, 82, 206, 47>>
      [] name = "config_validator_system"   -> <<66, 252, 200, 73, 171, 3, 59, 185>>
      [] name = "config_lp"                 -> <<183, 50, 40, 228, 205, 56, 194, 215>>
      [] name = "config_marinade"           -> <<220, 153, 80, 193, 216, 211, 196, 93>>
      [] name = "update_active"             -> <<75, 68, 76, 100, 214, 71, 31, 39>>
      [] name = "update_deactivated"        -> <<174, 210, 57, 104, 57, 19, 92, 48>>
      [] name = "deactivate_stake"          -> <<208, 161, 44, 92, 134, 172, 212, 67>>
      [] name = "emergency_unstake"         -> <<203, 171, 32, 179, 124, 162, 130, 90>>
      [] name = "partial_unstake"           -> <<96, 156, 173, 223, 180, 42, 167, 112>>
      [] name = "merge_stakes"              -> <<155, 210, 93, 94, 255, 92, 190, 131>>
      [] name = "redelegate"                -> <<132, 137, 144, 181, 169, 176, 58, 186>>
      [] name = "pause"                     -> <<98, 16, 192, 191, 5, 57, 103, 22>>
      [] name = "resume"                    -> <<168, 58, 49, 50, 13, 146, 27, 136>>
      [] name = "realloc_validator_list"    -> <<235, 255, 170, 70, 90, 232, 189, 148>>
      [] name = "realloc_stake_list"        -> <<102, 92, 37, 52, 95, 173, 29, 124>>

get_instruction_discriminator(name) == Low(Sha256Prefix8(name), 8)

\* The Vec built once by lazy_static, in its order.
STATE_MODIFYING_DISCRIMINATORS ==
    << DEPOSIT_DISCRIMINATOR,
       get_instruction_discriminator("initialize"),
       get_instruction_discriminator("change_authority"),
       get_instruction_discriminator("add_validator"),
       get_instruction_discriminator("remove_validator"),
       get_instruction_discriminator("set_validator_score"),
       get_instruction_discriminator("config_validator"),
       get_instruction_discriminator("deposit_stake_account"),
       get_instruction_discriminator("liquid_unstake"),
       get_instruction_discriminator("add_liquidity"),
       get_instruction_discriminator("remove_liquidity"),
       get_instruction_discriminator("set_lp_params"),
       get_instruction_discriminator("configure_delegated_stake"),
       get_instruction_discriminator("order_unstake"),
       get_instruction_discriminator("claim") >>

\* ----------------------------------------------------- the transaction
(***************************************************************************)
(* A transaction as fetched: its encoding, the message's static account    *)
(* keys, the addresses loaded through address-lookup tables (status meta), *)
(* the compiled instructions (program_id_index counts from 0 into the      *)
(* account keys) and the block time.                                       *)
(***************************************************************************)

\* VersionedTransaction::sanitize as far as instructions go: a program id
\* is a static key, and never the fee payer (index 0).
sanitize(t) ==
    \A i \in 1..Len(t.instructions) :
        /\ t.instructions[i].program_id_index # 0
        /\ t.instructions[i].program_id_index < Len(t.static_keys)

\* tx.transaction.transaction.decode(): a transaction only for a binary
\* encoding that deserializes and passes sanitize; None for the JSON forms.
decode(t) ==
    IF t.encoding = "base64" /\ sanitize(t) THEN Some(t) ELSE None

\* instruction.program_id(static_account_keys): indexing, which panics past
\* the end of the slice.
program_id(instruction, keys) ==
    IF instruction.program_id_index < Len(keys)
    THEN Some(keys[instruction.program_id_index + 1])
    ELSE None

\* Whether some entry of the registry, in order, equals the discriminator.
RECURSIVE registry_match(_, _)
registry_match(disc, j) ==
    IF j > Len(STATE_MODIFYING_DISCRIMINATORS) THEN FALSE
    ELSE IF STATE_MODIFYING_DISCRIMINATORS[j] = disc THEN TRUE
    ELSE registry_match(disc, j + 1)

\* instruction_step with the length test off by one: a bare 8-byte tag is
\* taken for too short.
instruction_step_off_by_one(instruction, keys) ==
    LET pid == program_id(instruction, keys)
    IN  IF pid = None THEN "panic"
        ELSE IF pid[1] # MARINADE_PROGRAM_KEY THEN "next"
        ELSE IF Len(instruction.data) <= 8 THEN "next"
        ELSE LET ix_discriminator == SubSeq(instruction.data, 1, 8)
             IN  IF ix_discriminator = DEPOSIT_DISCRIMINATOR THEN "true"
                 ELSE IF registry_match(ix_discriminator, 1) THEN "true"
                 ELSE "next"

\* One iteration of the loop over the instructions: "true" (return true),
\* "next" (go on) or "panic".
instruction_step(instruction, keys) ==
    LET pid == program_id(instruction, keys)
    IN  IF pid = None THEN "panic"
        ELSE IF pid[1] # MARINADE_PROGRAM_KEY THEN "next"
        ELSE IF Len(instruction.data) < 8 THEN "next"
        ELSE LET ix_discriminator == SubSeq(instruction.data, 1, 8)
             IN  IF ix_discriminator = DEPOSIT_DISCRIMINATOR THEN "true"
                 ELSE IF registry_match(ix_discriminator, 1) THEN "true"
                 ELSE "next"

\* The loop from instruction i on.
RECURSIVE scan_instructions(_, _)
scan_instructions(msg, i) ==
    IF i > Len(msg.instructions) THEN "false"
    ELSE LET step == instruction_step(msg.instructions[i], msg.static_keys)
         IN  IF step = "next" THEN scan_instructions(msg, i + 1) ELSE step

\* "true", "false" or "panic".
does_tx_affect_msol_value(t) ==
    LET decoded_transaction == decode(t)
    IN  IF decoded_transaction = None THEN "false"
        ELSE scan_instructions(decoded_transaction[1], 1)

\* -------------------------------------------------- the state account
\* MarinadeState, read off the account data: five u64 counters, little-endian,
\* at fixed offsets, in this order.
StateFields ==
    << "total_active_balance", "emergency_cooling_down",
       "available_reserve_balance", "circulating_ticket_balance",
       "msol_supply" >>

LayoutLen == Len(StateFields) * U64Bytes

\* The u64 at field number k (from 1) of the buffer.
field_at(data, k) == SubSeq(data, (k - 1) * U64Bytes + 1, k * U64Bytes)

\* MarinadeState::deserialize(&mut data_slice): an error when the buffer is
\* shorter than the layout, no partial record; bytes past the layout are left
\* in the slice.
deserialize(data) ==
    IF Len(data) < LayoutLen THEN None
    ELSE Some([ validator_system |-> [total_active_balance |-> field_at(data, 1)],
                emergency_cooling_down     |-> field_at(data, 2),
                available_reserve_balance  |-> field_at(data, 3),
                circulating_ticket_balance |-> field_at(data, 4),
                msol_supply                |-> field_at(data, 5) ])

\* rpc_client.get_account_data(pubkey).ok(): the account's bytes, or None when
\* the request failed.
fetch_account_data(rpc_ok, data) == IF rpc_ok THEN Some(data) ELSE None

find_and_parse_marinade_state(rpc_ok, data) ==
    LET account_data == fetch_account_data(rpc_ok, data)
    IN  IF account_data = None THEN None ELSE deserialize(account_data[1])

\* ------------------------------------------------------- the pipeline
\* sol_amount_of with the ticket balance added instead of subtracted.
sol_amount_adds_tickets(post_state, checks) ==
    LET s1 == u64_add(post_state.validator_system.total_active_balance,
                      post_state.emergency_cooling_down, checks)
        s2 == IF s1 = None THEN None
              ELSE u64_add(s1[1], post_state.available_reserve_balance, checks)
    IN  IF s2 = None THEN None
        ELSE u64_add(s2[1], post_state.circulating_ticket_balance, checks)

\* total_active_balance + emergency_cooling_down + available_reserve_balance
\*   - circulating_ticket_balance, left to right; None is a panic.
sol_amount_of(post_state, checks) ==
    LET s1 == u64_add(post_state.validator_system.total_active_balance,
                      post_state.emergency_cooling_down, checks)
        s2 == IF s1 = None THEN None
              ELSE u64_add(s1[1], post_state.available_reserve_balance, checks)
    IN  IF s2 = None THEN None
        ELSE u64_sub(s2[1], post_state.circulating_ticket_balance, checks)

\* sol_amount / post_state.msol_supply; None is a panic.
msol_value_of(sol_amount, post_state) == u64_div(sol_amount, post_state.msol_supply)

MintUnderlying(block_time, msol_value, sol_amount) ==
    [ block_time               |-> block_time,
      msol_value               |-> msol_value,
      mint_pubkey              |-> MSOL_MINT_PUBKEY,
      platform_program_pubkey  |-> MARINADE_STATE_PUBKEY,
      mints                    |-> <<SOL_MINT_PUBKEY>>,
      total_underlying_amounts |-> <<sol_amount>> ]

\* What a call returns: nothing, a snapshot, or it panics.
ReturnNone == [kind |-> "None", value |-> None]
ReturnSome(m) == [kind |-> "Some", value |-> Some(m)]
Panic == [kind |-> "Panic", value |-> None]

\* The steps after the state account is fetched and parsed.
value_post_state(t, post_state, checks) ==
    LET sol_amount == sol_amount_of(post_state, checks)
    IN  IF sol_amount = None THEN Panic
        ELSE LET msol_value == msol_value_of(sol_amount[1], post_state)
             IN  IF msol_value = None THEN Panic
                 ELSE IF t.block_time = None THEN ReturnNone
                 ELSE ReturnSome(MintUnderlying(t.block_time[1], msol_value[1],
                                                sol_amount[1]))

\* analyze_transaction(rpc_client, tx), the account request succeeding or not
\* and the state account holding `data` when it is made.  (Both address
\* constants parsed with Pubkey::from_str are 32-byte base58 keys, so neither
\* the `.ok()?` nor the `unwrap()` on them ends the call.)
analyze_transaction(t, rpc_ok, data, checks) ==
    LET affects == does_tx_affect_msol_value(t)
    IN  IF affects = "panic" THEN Panic
        \* not affected: decode()? and signatures.get(0)? lead to None, as
        \* does the return after the message is printed
        ELSE IF affects = "false" THEN ReturnNone
        ELSE LET post_state == find_and_parse_marinade_state(rpc_ok, data)
             IN  IF post_state = None THEN ReturnNone
                 ELSE value_post_state(t, post_state[1], checks)

\* --------------------------------------------------------------- inputs
PAYER_KEY == "9WzDXwBbmkg8ZTbNMqUxvQRAyrZzDsGYdLVL9zYtAWWM"
SYSTEM_PROGRAM_KEY == "11111111111111111111111111111111"

StaticKeyLists ==
    { <<PAYER_KEY, SYSTEM_PROGRAM_KEY, MARINADE_PROGRAM_KEY>>,
      <<PAYER_KEY, SYSTEM_PROGRAM_KEY>> }

LoadedKeyLists == { <<>>, <<MARINADE_PROGRAM_KEY>> }

\* Payloads: none, a tag cut to 7 bytes, a bare tag, a tag with arguments,
\* tags in the registry and tags outside it.
IxData ==
    { <<>>,
      SubSeq(DEPOSIT_DISCRIMINATOR, 1, 7),
      DEPOSIT_DISCRIMINATOR,
      get_instruction_discriminator("liquid_unstake") \o <<64, 66, 15, 0, 0, 0, 0, 0>>,
      get_instruction_discriminator("withdraw_stake_account"),
      get_instruction_discriminator("stake_reserve") \o <<0, 0, 0, 0>> }

Instruction(index, data) == [program_id_index |-> index, data |-> data]

Instructions == { Instruction(index, data) : index \in 0..3, data \in IxData }

InstructionLists == UNION { [1..n -> Instructions] : n \in 0..MaxInstr }

BlockTimes == { None, Some(1700000000) }

Transaction(encoding, static_keys, loaded_keys, instructions, block_time) ==
    [ encoding     |-> encoding,
      static_keys  |-> static_keys,
      loaded_keys  |-> loaded_keys,
      instructions |-> instructions,
      block_time   |-> block_time ]

\* The variants of MarinadeFinanceInstruction, in declaration order, each
\* under its snake_case operation name.
OperationNames ==
    { "initialize", "change_authority", "add_validator", "remove_validator",
      "set_validator_score", "config_validator_system", "deposit",
      "deposit_stake_account", "liquid_unstake", "add_liquidity",
      "remove_liquidity", "config_lp", "config_marinade", "order_unstake",
      "claim", "stake_reserve", "update_active", "update_deactivated",
      "deactivate_stake", "emergency_unstake", "partial_unstake",
      "merge_stakes", "redelegate", "pause", "resume",
      "withdraw_stake_account", "realloc_validator_list",
      "realloc_stake_list" }

\* The names the registry hashes (the literal deposit tag aside).
RegistryNames ==
    { "initialize", "change_authority", "add_validator", "remove_validator",
      "set_validator_score", "config_validator", "deposit_stake_account",
      "liquid_unstake", "add_liquidity", "remove_liquidity", "set_lp_params",
      "configure_delegated_stake", "order_unstake", "claim" }

\* A transaction whose only instruction calls Marinade with the payload `tag`.
SingleInstructionTx(tag) ==
    Transaction("base64", <<PAYER_KEY, MARINADE_PROGRAM_KEY>>, <<>>,
                <<Instruction(1, tag)>>, Some(1700000000))

ProbeTags ==
    { get_instruction_discriminator(name) : name \in OperationNames \cup RegistryNames }
    \cup { DEPOSIT_DISCRIMINATOR }

ClassifierTxs ==
    { Transaction(e, sk, lk, ixs, None) :
        e \in {"base64", "json"}, sk \in StaticKeyLists, lk \in LoadedKeyLists,
        ixs \in InstructionLists }
    \cup { SingleInstructionTx(tag) : tag \in ProbeTags }

\* The transactions the pipeline is run on: a deposit, a call of another
\* program, a Marinade call with an unregistered tag, a deposit in the JSON
\* encoding, a call through a loaded address; with and without block time.
PipelineTxs ==
    { Transaction(shape[1], shape[2], shape[3], <<Instruction(shape[4], shape[5])>>, bt) :
        shape \in
          { <<"base64", <<PAYER_KEY, SYSTEM_PROGRAM_KEY, MARINADE_PROGRAM_KEY>>, <<>>,
              2, DEPOSIT_DISCRIMINATOR \o <<64, 66, 15, 0, 0, 0, 0, 0>> >>,
            <<"base64", <<PAYER_KEY, SYSTEM_PROGRAM_KEY, MARINADE_PROGRAM_KEY>>, <<>>,
              1, DEPOSIT_DISCRIMINATOR>>,
            <<"base64", <<PAYER_KEY, SYSTEM_PROGRAM_KEY, MARINADE_PROGRAM_KEY>>, <<>>,
              2, get_instruction_discriminator("stake_reserve")>>,
            <<"json", <<PAYER_KEY, SYSTEM_PROGRAM_KEY, MARINADE_PROGRAM_KEY>>, <<>>,
              2, DEPOSIT_DISCRIMINATOR>>,
            <<"base64", <<PAYER_KEY, SYSTEM_PROGRAM_KEY>>, <<MARINADE_PROGRAM_KEY>>,
              2, DEPOSIT_DISCRIMINATOR>> },
        bt \in BlockTimes }

\* 2^63.
U64_HALF == <<0, 0, 0, 0, 0, 0, 0, 128>>

\* The protocol states the account may hold.
ProtocolStates ==
    { [ validator_system |-> [total_active_balance |-> a],
        emergency_cooling_down |-> c, available_reserve_balance |-> r,
        circulating_ticket_balance |-> t, msol_supply |-> s ] :
        a \in {U64(100), U64_HALF, U64_MAX}, c \in {U64(0), U64(20)}, r \in {U64(30)},
        t \in {U64(10), U64(200)}, s \in {U64(0), U64(50)} }

\* The account data of a state: each field's to_le_bytes, in layout order.
encode(st) ==
    st.validator_system.total_active_balance \o st.emergency_cooling_down
      \o st.available_reserve_balance \o st.circulating_ticket_balance
      \o st.msol_supply

ExampleState ==
    [ validator_system |-> [total_active_balance |-> U64(100)],
      emergency_cooling_down |-> U64(20), available_reserve_balance |-> U64(30),
      circulating_ticket_balance |-> U64(10), msol_supply |-> U64(50) ]

\* What the account may hold: a well-formed state, a state followed by more
\* bytes, a buffer cut short, nothing.
AccountDatas ==
    { encode(st) : st \in ProtocolStates }
    \cup { encode(ExampleState) \o <<1, 2, 3>>,
           SubSeq(encode(ExampleState), 1, LayoutLen - 1),
           <<>> }

\* ---------------------------------------------------------- the machine
Pending == [kind |-> "Pending", value |-> None]

\* The chain just after transaction T executed; nothing analysed yet.
Init ==
    /\ tx \in PipelineTxs
    /\ overflow_checks \in BOOLEAN
    /\ account \in AccountDatas
    /\ account_at_tx = account
    /\ later_txs = 0
    /\ verdict = "pending"
    /\ fetched = None
    /\ result = Pending
    /\ pc = "executed"

\* A later state-changing transaction rewrites the state account.
LaterTx ==
    /\ pc = "executed"
    /\ later_txs < MaxLaterTxs
    /\ \E data \in AccountDatas :
          /\ data # account
          /\ account' = data
    /\ later_txs' = later_txs + 1
    /\ UNCHANGED <<tx, verdict, overflow_checks, account_at_tx, fetched, result, pc>>

\* The caller runs analyze_transaction on T; the account request, when made,
\* succeeds or fails and reads the account as it is now.
AnalyzeTransaction ==
    /\ pc = "executed"
    /\ \E rpc_ok \in BOOLEAN :
          /\ verdict' = does_tx_affect_msol_value(tx)
          /\ fetched' = IF verdict' = "true"
                        THEN fetch_account_data(rpc_ok, account) ELSE None
          /\ result' = analyze_transaction(tx, rpc_ok, account, overflow_checks)
    /\ pc' = "done"
    /\ UNCHANGED <<tx, overflow_checks, account, account_at_tx, later_txs>>

Next == LaterTx \/ AnalyzeTransaction

Spec == Init /\ [][Next]_vars

\* The classifier alone, on a wider family of transactions.
InitClassifier ==
    /\ tx \in ClassifierTxs
    /\ overflow_checks = FALSE
    /\ account = <<>>
    /\ account_at_tx = <<>>
    /\ later_txs = 0
    /\ verdict = "pending"
    /\ fetched = None
    /\ result = Pending
    /\ pc = "fetched"

Classify ==
    /\ pc = "fetched"
    /\ verdict' = does_tx_affect_msol_value(tx)
    /\ pc' = "classified"
    /\ UNCHANGED <<tx, overflow_checks, account, account_at_tx, later_txs,
                   fetched, result>>

NextClassifier == Classify

SpecClassifier == InitClassifier /\ [][NextClassifier]_vars

\* ------------------------------------------------------------ the claims
\* The registry as a set of tags.
TagSet ==
    { STATE_MODIFYING_DISCRIMINATORS[j] : j \in 1..Len(STATE_MODIFYING_DISCRIMINATORS) }

\* An instruction with a payload of at least 8 bytes whose first 8 bytes are
\* a registered tag.
CarriesRegisteredTag(instruction) ==
    /\ Len(instruction.data) >= 8
    /\ SubSeq(instruction.data, 1, 8) \in TagSet

\* The key at index k (from 0) of a key list, None past its end.
KeyAt(keys, k) == IF k < Len(keys) THEN Some(keys[k + 1]) ELSE None

\* C1: a classified transaction is relevant exactly when it decodes and some
\* instruction has the Marinade program as its program id, a payload of at
\* least 8 bytes and a registered tag as its first 8 bytes; the registry
\* holds the literal deposit tag; the verdict is never a panic.
C1_RelevantIffRegisteredMarinadeInstruction ==
    pc = "classified" =>
        /\ DEPOSIT_DISCRIMINATOR \in TagSet
        /\ verdict \in {"true", "false"}
        /\ (verdict = "true") <=>
             /\ decode(tx) # None
             /\ \E i \in 1..Len(tx.instructions) :
                   /\ KeyAt(tx.static_keys, tx.instructions[i].program_id_index)
                         = Some(MARINADE_PROGRAM_KEY)
                   /\ CarriesRegisteredTag(tx.instructions[i])

\* C1's case: a relevant transaction of two Marinade instructions, the first
\* with a payload too short to carry a tag, the second a bare deposit tag.
C1_Witness ==
    /\ pc = "classified"
    /\ verdict = "true"
    /\ Len(tx.instructions) = 2
    /\ tx.instructions[1].program_id_index = 2
    /\ Len(tx.instructions[1].data) = 7
    /\ tx.instructions[2].program_id_index = 2
    /\ tx.instructions[2].data = DEPOSIT_DISCRIMINATOR

\* Byte strings of n zero bytes.
Zeros(n) == [i \in 1..n |-> 0]

\* a * m for a byte m, from byte i with carry c: one byte longer than a.
RECURSIVE MulByteFrom(_, _, _, _)
MulByteFrom(a, m, i, c) ==
    IF i > Len(a) THEN <<c>>
    ELSE LET p == a[i] * m + c
         IN  <<p % 256>> \o MulByteFrom(a, m, i + 1, p \div 256)

\* a * (the bytes of b from j on, in place): Len(a) + Len(b) bytes, exact.
RECURSIVE MulFrom(_, _, _)
MulFrom(a, b, j) ==
    IF j > Len(b) THEN Zeros(Len(a) + Len(b))
    ELSE LET part == Zeros(j - 1) \o MulByteFrom(a, b[j], 1, 0) \o Zeros(Len(b) - j)
         IN  Low(AddFrom(part, MulFrom(a, b, j + 1), 1, 0), Len(a) + Len(b))

\* q is the truncating quotient of n by d (all u64): q*d <= n < q*d + d,
\* computed without wrapping.
IsQuotient(q, n, d) ==
    LET p   == MulFrom(q, d, 1)
        n16 == n \o Zeros(U64Bytes)
        d16 == d \o Zeros(U64Bytes)
    IN  /\ ~Less(n16, p)
        /\ Less(Low(SubFrom(n16, p, 1, 0), 2 * U64Bytes), d16)

\* active + cooling + reserve of a state, exact (10 bytes, no wrapping).
ExactSum(st) ==
    LET w(x) == x \o <<0, 0>>
        s1 == Low(AddFrom(w(st.validator_system.total_active_balance),
                          w(st.emergency_cooling_down), 1, 0), U64Bytes + 2)
    IN  Low(AddFrom(s1, w(st.available_reserve_balance), 1, 0), U64Bytes + 2)

\* The sum fits a u64.
SumFits(st) == ExactSum(st)[U64Bytes + 1] = 0 /\ ExactSum(st)[U64Bytes + 2] = 0

\* The ticket balance exceeds the sum.
TicketsExceedSum(st) == Less(ExactSum(st), st.circulating_ticket_balance \o <<0, 0>>)

\* The sum less the ticket balance, exact, when the sum fits and is not
\* exceeded.
ExactBacking(st) ==
    Low(SubFrom(ExactSum(st), st.circulating_ticket_balance \o <<0, 0>>, 1, 0), U64Bytes)

\* The analysis of a relevant transaction fetched the account and parsed a
\* state out of it.
ParsedState == deserialize(fetched[1])[1]

AnalyzedWithState ==
    /\ pc = "done"
    /\ verdict = "true"
    /\ fetched # None
    /\ deserialize(fetched[1]) # None

\* C2: for a relevant transaction with block time and a parsed state whose
\* sum neither overflows nor is exceeded by the ticket balance and whose
\* supply is not zero, the snapshot's one backing amount is
\* active + cooling + reserve - tickets and its price the truncating quotient
\* of that amount by the supply; for 100, 20, 30, 10, 50 these are 140 and 2.
C2_BackingAmountAndTruncatedPrice ==
    ( /\ AnalyzedWithState
      /\ tx.block_time # None
      /\ SumFits(ParsedState)
      /\ ~TicketsExceedSum(ParsedState)
      /\ ~IsZero(ParsedState.msol_supply) )
    => /\ result.kind = "Some"
       /\ result.value[1].total_underlying_amounts = <<ExactBacking(ParsedState)>>
       /\ IsQuotient(result.value[1].msol_value, ExactBacking(ParsedState),
                     ParsedState.msol_supply)
       /\ ParsedState = ExampleState =>
             /\ result.value[1].total_underlying_amounts = <<U64(140)>>
             /\ result.value[1].msol_value = U64(2)

\* C2's case: the example state was fetched for a relevant transaction with
\* block time, and a snapshot came back.
C2_Witness ==
    /\ AnalyzedWithState
    /\ tx.block_time # None
    /\ ParsedState = ExampleState
    /\ result.kind = "Some"
    /\ result.value[1].msol_value = U64(2)

\* C3: a parsed state with supply 0 makes the analysis of a relevant
\* transaction report a computation error, as a value.  (Stated for the
\* states whose backing amount is computed without overflow or underflow, so
\* that the division is what is reached.)
C3_ZeroSupplyIsComputationError ==
    ( /\ AnalyzedWithState
      /\ SumFits(ParsedState)
      /\ ~TicketsExceedSum(ParsedState)
      /\ IsZero(ParsedState.msol_supply) )
    => result.kind = "ComputationError"

\* C4: when active + cooling + reserve is smaller than the ticket balance the
\* analysis reports a computation error: no snapshot holding a wrapped value,
\* no panic.  (Stated for a non-zero supply and a present block time, so that
\* the subtraction alone decides what comes back.)
C4_UnderflowIsComputationError ==
    ( /\ AnalyzedWithState
      /\ tx.block_time # None
      /\ SumFits(ParsedState)
      /\ TicketsExceedSum(ParsedState)
      /\ ~IsZero(ParsedState.msol_supply) )
    => result.kind = "ComputationError"

\* C5: for a transaction that is not relevant or has no block time the
\* analysis returns None, whatever the fetch returns and the state holds.
C5_NotRelevantOrNoBlockTimeIsNone ==
    (pc = "done" /\ (verdict # "true" \/ tx.block_time = None))
    => result = ReturnNone

\* C6: for a relevant transaction whose fetched account bytes do not parse,
\* the analysis reports a decode error, not the absent result.
C6_UndecodableStateIsDecodeError ==
    (pc = "done" /\ verdict = "true" /\ fetched # None
       /\ deserialize(fetched[1]) = None)
    => result.kind = "DecodeError"

\* C7: every snapshot names the mSOL mint as mint_pubkey, the state account as
\* platform_program_pubkey and the one-element list of the mSOL mint as mints,
\* with one backing amount.
C7_SnapshotIdentifiers ==
    (pc = "done" /\ result.kind = "Some")
    => /\ result.value[1].mint_pubkey = MSOL_MINT_PUBKEY
       /\ result.value[1].platform_program_pubkey = MARINADE_STATE_PUBKEY
       /\ result.value[1].mints = <<MSOL_MINT_PUBKEY>>
       /\ Len(result.value[1].total_underlying_amounts) = 1

\* The operations the registry has to cover, and the tag of each: the literal
\* for deposit, the hash of the name for the others.
RequiredOperations ==
    { "deposit", "deposit_stake_account", "liquid_unstake", "add_liquidity",
      "remove_liquidity", "order_unstake", "claim", "withdraw_stake_account",
      "add_validator", "remove_validator", "initialize" }

OperationTag(name) ==
    IF name = "deposit" THEN DEPOSIT_DISCRIMINATOR
    ELSE get_instruction_discriminator(name)

\* C8: the registry holds the tag of every required operation, so a
\* transaction whose only Marinade instruction carries such a tag is relevant.
C8_RegistryCoversRequiredOperations ==
    \A name \in RequiredOperations :
        (pc = "classified" /\ tx = SingleInstructionTx(OperationTag(name)))
        => /\ OperationTag(name) \in TagSet
           /\ verdict = "true"

\* C9: program ids are resolved against the static keys followed by the
\* loaded addresses: every transaction that deserializes gets a verdict, and
\* an instruction reaching Marinade through either list, with a registered
\* tag, makes it relevant.
C9_ResolvesAgainstCombinedAddressList ==
    (pc = "classified" /\ tx.encoding = "base64")
    => /\ verdict \in {"true", "false"}
       /\ ( \E i \in 1..Len(tx.instructions) :
               /\ KeyAt(tx.static_keys \o tx.loaded_keys,
                        tx.instructions[i].program_id_index)
                     = Some(MARINADE_PROGRAM_KEY)
               /\ CarriesRegisteredTag(tx.instructions[i]) )
          => verdict = "true"

\* What the analysis of T returns when it reads the account as T left it.
SnapshotAtTransaction ==
    analyze_transaction(tx, TRUE, account_at_tx, overflow_checks)

\* C10: the snapshot is the one of the state as T left it, with T's block
\* time, whatever later transactions did to the account before the analysis.
\* (Stated for a T whose own state yields a snapshot.)
C10_SnapshotOfStateAtTransaction ==
    (pc = "done" /\ result.kind = "Some" /\ SnapshotAtTransaction.kind = "Some")
    => /\ result = SnapshotAtTransaction
       /\ result.value[1].block_time = tx.block_time[1]

====
